---- MODULE Spec2Model ----
(***************************************************************************)
(* Model of src/main.py: the Route53 health-check security-group sync.     *)
(*                                                                         *)
(* main() fetches ip-ranges.json, filters the prefixes by service type and *)
(* region, revokes every ingress rule the module-scope SecurityGroup       *)
(* handle reports, and authorizes one rule per filtered CIDR.              *)
(*                                                                         *)
(* The rule set lives at the provider and is shared by every process that  *)
(* runs the module.  Each process owns one module-scope handle             *)
(* (main.py:22-23) whose attribute data is loaded lazily on the first read *)
(* of ip_permissions and dropped again whenever a resource action returns; *)
(* an action that raises leaves the loaded data in place.                  *)
(***************************************************************************)
EXTENDS Integers, Sequences, FiniteSets, TLC

\* ---------------------------------------------------------------- bounds
MaxLen == 2      \* longest "prefixes" list a fetch returns
MaxRuns == 3     \* invocations of main in one behaviour of Spec

\* ------------------------------------------------------------- universes
Procs == {1, 2}
Regions == {"us-east-1", "us-west-2"}
Ports == {80, 443}
r53_healthcheck_service_type == "ROUTE53_HEALTHCHECKS"
Services == {r53_healthcheck_service_type, "EC2"}

\* One entry of the document's "prefixes" array (main.py:32-36).
PrefixRecords ==
    { [ip_prefix |-> "52.1.0.0/16", region |-> "us-east-1", service |-> "ROUTE53_HEALTHCHECKS"],
      [ip_prefix |-> "52.2.0.0/16", region |-> "us-east-1", service |-> "ROUTE53_HEALTHCHECKS"],
      [ip_prefix |-> "52.2.0.0/16", region |-> "us-west-2", service |-> "ROUTE53_HEALTHCHECKS"],
      [ip_prefix |-> "52.1.0.0/16", region |-> "us-east-1", service |-> "EC2"] }

\* The documents the URL may serve: every list of at most MaxLen records.
Documents == UNION { [1..n -> PrefixRecords] : n \in 0..MaxLen }

\* HTTP statuses of the GET; 0 stands for "no response yet".
StatusCodes == {200, 204, 404, 500}

\* How a provider call ends: a response with HTTPStatusCode 200, a response
\* with another HTTPStatusCode, botocore.exceptions.ClientError raised, or
\* any other exception raised (a network error).
Outcomes == {"200", "non200", "ClientError", "OtherError"}

VARIABLES
    region, FromPort, ToPort, IpProtocol,   \* module globals, main.py:17-21
    rules,                  \* the security group's ingress rules at the provider
    meta_data,              \* per process: the handle's loaded data, <<>> = None
    pc,                     \* per process: where main is
    runs,                   \* per process: invocations started
    status_code,            \* per process: response.status_code of this run
    cidr_ranges,            \* per process: main's local cidr_ranges
    r53_healthcheck_cidr_ranges,    \* per process: main's filtered list
    calls,                  \* per process: revoke/authorize calls of this run
    log,                    \* per process: what this run printed
    trace,                  \* per process: the steps of main that returned
    snap,                   \* per process: rule set at run start / clear return
    last_authorize          \* the process whose authorize call landed last

vars == << region, FromPort, ToPort, IpProtocol, rules, meta_data, pc, runs,
           status_code, cidr_ranges, r53_healthcheck_cidr_ranges, calls, log,
           trace, snap, last_authorize >>

config == << region, FromPort, ToPort, IpProtocol >>

Range(s) == { s[i] : i \in DOMAIN s }

\* ------------------------------------------------------- pure functions

\* main.py:123: 'Route53 HealthCheck Endpoint Cidr Range for ' + region
Description == <<"Route53 HealthCheck Endpoint Cidr Range for ">> \o <<region>>

\* main.py:116-126: the dict appended for one CidrIp.
IpPermission(CidrIp) ==
    [ FromPort |-> FromPort, ToPort |-> ToPort, IpProtocol |-> IpProtocol,
      IpRanges |-> << [CidrIp |-> CidrIp, Description |-> Description] >> ]

\* A rule some other party put into the group (not one this program builds).
ForeignPermission ==
    [ FromPort |-> 22, ToPort |-> 22, IpProtocol |-> "tcp",
      IpRanges |-> << [CidrIp |-> "10.0.0.0/8", Description |-> <<"ssh">>] >> ]

\* Mutant of ip_permissions_list: FromPort and ToPort are swapped.
ip_permissions_list_swapped(cidrs) ==
    [ i \in 1..Len(cidrs) |->
        [ FromPort |-> ToPort, ToPort |-> FromPort, IpProtocol |-> IpProtocol,
          IpRanges |-> << [CidrIp |-> cidrs[i], Description |-> Description] >> ] ]

\* main.py:113-126: the loop building ip_permissions_list.
ip_permissions_list(cidrs) ==
    [ i \in 1..Len(cidrs) |-> IpPermission(cidrs[i]) ]

\* Mutant of the filter: the region test is missing.
RECURSIVE filter_without_region(_, _)
filter_without_region(ranges, service) ==
    IF ranges = << >> THEN << >>
    ELSE LET cidr_range == Head(ranges)
             rest == filter_without_region(Tail(ranges), service)
         IN  IF cidr_range.service = service
             THEN <<cidr_range.ip_prefix>> \o rest
             ELSE rest

\* main.py:72-74: the list comprehension, in input order, reading the global region.
RECURSIVE filter_cidr_ranges_by_service_type_and_current_region(_, _)
filter_cidr_ranges_by_service_type_and_current_region(ranges, service) ==
    IF ranges = << >> THEN << >>
    ELSE LET cidr_range == Head(ranges)
             rest == filter_cidr_ranges_by_service_type_and_current_region(
                         Tail(ranges), service)
         IN  IF cidr_range.service = service /\ cidr_range.region = region
             THEN <<cidr_range.ip_prefix>> \o rest
             ELSE rest

\* Mutant of fetch_failed: only server errors abort.
fetch_failed_5xx_only(status) == status >= 500

\* main.py:47: if not response.status_code == 200
fetch_failed(status) == ~(status = 200)

\* Mutant of revoke_raises: ClientError is caught, as around the authorize call.
revoke_raises_caught(outcome) == outcome = "OtherError"

\* Mutant of revoke_raises: a non-200 response is raised as an error.
revoke_raises_strict(outcome) == outcome \in {"non200", "ClientError", "OtherError"}

\* main.py:92-97: no try around revoke_ingress, so every exception
\* propagates; a returned response is never turned into one.
revoke_raises(outcome) == outcome \in {"ClientError", "OtherError"}

\* Mutant of authorize_raises: the try/except is missing.
authorize_raises_uncaught(outcome) == outcome \in {"ClientError", "OtherError"}

\* main.py:128-134: only botocore.exceptions.ClientError is caught.
authorize_raises(outcome) == outcome = "OtherError"

\* Mutant of StepAfter: main installs before it clears.
StepAfterInstallFirst(step) ==
    CASE step = "get" -> "filter"
      [] step = "filter" -> "install"
      [] step = "install" -> "clear"
      [] step = "clear" -> "done"

\* main.py:143-151: the order of main's four calls.
StepAfter(step) ==
    CASE step = "get" -> "filter"
      [] step = "filter" -> "clear"
      [] step = "clear" -> "install"
      [] step = "install" -> "done"

\* Mutant of RevokeArgument: nothing is passed to revoke_ingress.
RevokeArgumentNone(p) == {}

\* main.py:93: IpPermissions=security_group.ip_permissions, the loaded data.
RevokeArgument(p) == meta_data[p][1]

\* The provider's revoke_ingress: a successful call removes the named rules.
RevokeEffect(current, perms, outcome) ==
    IF outcome = "200" THEN current \ perms ELSE current

\* The provider's authorize_ingress: a successful call adds the listed rules.
AuthorizeEffect(current, perms, outcome) ==
    IF outcome = "200" THEN current \cup Range(perms) ELSE current

\* ------------------------------------------------------------------ Init

Init ==
    /\ region \in Regions
    /\ FromPort = 80
    /\ ToPort \in Ports
    /\ IpProtocol = "tcp"
    /\ rules \in SUBSET {ForeignPermission, IpPermission("52.1.0.0/16")}
    /\ meta_data = [p \in Procs |-> << >>]
    /\ pc = [p \in Procs |-> "idle"]
    /\ runs = [p \in Procs |-> 0]
    /\ status_code = [p \in Procs |-> 0]
    /\ cidr_ranges = [p \in Procs |-> << >>]
    /\ r53_healthcheck_cidr_ranges = [p \in Procs |-> << >>]
    /\ calls = [p \in Procs |-> << >>]
    /\ log = [p \in Procs |-> << >>]
    /\ trace = [p \in Procs |-> << >>]
    /\ snap = [p \in Procs |-> [start |-> {}, cleared |-> << >>]]
    /\ last_authorize = 0

\* --------------------------------------------------------------- actions

\* Entry into main (main.py:141) while no other invocation is in flight.
Invoke(p) ==
    /\ pc[p] = "idle"
    /\ \A q \in Procs : pc[q] = "idle"
    /\ runs[1] + runs[2] < MaxRuns
    /\ pc' = [pc EXCEPT ![p] = "get"]
    /\ runs' = [runs EXCEPT ![p] = @ + 1]
    /\ snap' = [snap EXCEPT ![p] = [start |-> rules, cleared |-> << >>]]
    /\ UNCHANGED << config, rules, meta_data, status_code, cidr_ranges,
                    r53_healthcheck_cidr_ranges, calls, log, trace,
                    last_authorize >>

\* Entry into main with no mutual exclusion: each process runs main once.
InvokeConcurrently(p) ==
    /\ pc[p] = "idle"
    /\ runs[p] = 0
    /\ pc' = [pc EXCEPT ![p] = "get"]
    /\ runs' = [runs EXCEPT ![p] = @ + 1]
    /\ snap' = [snap EXCEPT ![p] = [start |-> rules, cleared |-> << >>]]
    /\ UNCHANGED << config, rules, meta_data, status_code, cidr_ranges,
                    r53_healthcheck_cidr_ranges, calls, log, trace,
                    last_authorize >>

\* get_aws_service_cidr_ranges (main.py:45-50): the GET raises, or returns a
\* status; a failed status exits; otherwise the body parses to the prefixes
\* list or the parse raises.
Get(p) ==
    /\ pc[p] = "get"
    /\ \E raised \in BOOLEAN, status \in StatusCodes,
          parsed \in BOOLEAN, document \in Documents :
        /\ raised => (status = 200 /\ parsed /\ document = << >>)
        /\ (~raised /\ fetch_failed(status)) => (parsed /\ document = << >>)
        /\ (~raised /\ ~fetch_failed(status) /\ ~parsed) => document = << >>
        /\ (~raised /\ ~fetch_failed(status) /\ status # 200) => document = << >>
        /\ IF raised
           THEN /\ pc' = [pc EXCEPT ![p] = "crashed"]
                /\ UNCHANGED << status_code, cidr_ranges, trace >>
           ELSE /\ status_code' = [status_code EXCEPT ![p] = status]
                /\ IF fetch_failed(status)
                   THEN /\ pc' = [pc EXCEPT ![p] = "aborted"]
                        /\ UNCHANGED << cidr_ranges, trace >>
                   ELSE IF ~parsed
                   THEN /\ pc' = [pc EXCEPT ![p] = "crashed"]
                        /\ UNCHANGED << cidr_ranges, trace >>
                   ELSE /\ cidr_ranges' = [cidr_ranges EXCEPT ![p] = document]
                        /\ trace' = [trace EXCEPT ![p] = Append(@, "get")]
                        /\ pc' = [pc EXCEPT ![p] = StepAfter("get")]
    /\ UNCHANGED << config, rules, meta_data, runs,
                    r53_healthcheck_cidr_ranges, calls, log, snap,
                    last_authorize >>

\* main.py:145-146: the filter call with the module's service type.
Filter(p) ==
    /\ pc[p] = "filter"
    /\ r53_healthcheck_cidr_ranges' =
          [r53_healthcheck_cidr_ranges EXCEPT ![p] =
              filter_cidr_ranges_by_service_type_and_current_region(
                  cidr_ranges[p], r53_healthcheck_service_type)]
    /\ trace' = [trace EXCEPT ![p] = Append(@, "filter")]
    /\ pc' = [pc EXCEPT ![p] = StepAfter("filter")]
    /\ UNCHANGED << config, rules, meta_data, runs, status_code, cidr_ranges,
                    calls, log, snap, last_authorize >>

\* remove_all_rules_from_security_group, main.py:89-90: the read of
\* security_group.ip_permissions loads the handle's data from the provider
\* when none is loaded (the load may raise); an empty list returns at once.
\* cidr_ranges is not read after main.py:146 and is forgotten here.
ClearCheck(p) ==
    /\ pc[p] = "clear"
    /\ \E loaded \in BOOLEAN :
        /\ (meta_data[p] # << >>) => loaded
        /\ IF ~loaded
           THEN /\ pc' = [pc EXCEPT ![p] = "crashed"]
                /\ UNCHANGED << meta_data, trace, snap >>
           ELSE LET data == IF meta_data[p] = << >> THEN <<rules>> ELSE meta_data[p]
                IN  /\ meta_data' = [meta_data EXCEPT ![p] = data]
                    /\ IF data[1] = {}
                       THEN /\ pc' = [pc EXCEPT ![p] = StepAfter("clear")]
                            /\ trace' = [trace EXCEPT ![p] = Append(@, "clear")]
                            /\ snap' = [snap EXCEPT ![p].cleared = <<rules>>]
                       ELSE /\ pc' = [pc EXCEPT ![p] = "revoke"]
                            /\ UNCHANGED << trace, snap >>
    /\ cidr_ranges' = [cidr_ranges EXCEPT ![p] = << >>]
    /\ UNCHANGED << config, rules, runs, status_code,
                    r53_healthcheck_cidr_ranges, calls, log, last_authorize >>

\* remove_all_rules_from_security_group, main.py:92-97: one revoke_ingress
\* call with the loaded permissions.  A returned response drops the handle's
\* data; a non-200 response is printed; an exception propagates out of main.
Revoke(p) ==
    /\ pc[p] = "revoke"
    /\ \E outcome \in Outcomes :
        LET perms == RevokeArgument(p)
        IN  /\ calls' = [calls EXCEPT ![p] = Append(@,
                    [op |-> "revoke_ingress", IpPermissions |-> perms,
                     outcome |-> outcome, before |-> rules])]
            /\ rules' = RevokeEffect(rules, perms, outcome)
            /\ meta_data' = [meta_data EXCEPT ![p] =
                  IF outcome \in {"200", "non200"} THEN << >> ELSE @]
            /\ IF revoke_raises(outcome)
               THEN /\ pc' = [pc EXCEPT ![p] = "crashed"]
                    /\ UNCHANGED << log, trace, snap >>
               ELSE
                    /\ log' = [log EXCEPT ![p] =
                          CASE outcome = "200" -> @
                            [] outcome = "non200" ->
                                 Append(@, "Unsuccessful API call: ec2.security_group.revoke_ingress")
                            [] OTHER -> Append(@, "ClientError")]
                    /\ trace' = [trace EXCEPT ![p] = Append(@, "clear")]
                    /\ snap' = [snap EXCEPT ![p].cleared = <<rules'>>]
                    /\ pc' = [pc EXCEPT ![p] = StepAfter("clear")]
    /\ UNCHANGED << config, runs, status_code, cidr_ranges,
                    r53_healthcheck_cidr_ranges, last_authorize >>

\* add_cidr_ranges_to_security_group (main.py:113-138): build the list, one
\* authorize_ingress call; ClientError is caught and printed, a non-200
\* response is printed, any other exception propagates out of main.
Authorize(p) ==
    /\ pc[p] = "install"
    /\ \E outcome \in Outcomes :
        LET perms == ip_permissions_list(r53_healthcheck_cidr_ranges[p])
        IN  /\ calls' = [calls EXCEPT ![p] = Append(@,
                    [op |-> "authorize_ingress", IpPermissions |-> perms,
                     outcome |-> outcome, before |-> rules])]
            /\ rules' = AuthorizeEffect(rules, perms, outcome)
            /\ last_authorize' = p
            /\ meta_data' = [meta_data EXCEPT ![p] =
                  IF outcome \in {"200", "non200"} THEN << >> ELSE @]
            /\ IF authorize_raises(outcome)
               THEN /\ pc' = [pc EXCEPT ![p] = "crashed"]
                    /\ UNCHANGED << log, trace >>
               ELSE /\ log' = [log EXCEPT ![p] =
                          CASE outcome = "200" -> @
                            [] outcome = "non200" ->
                                 Append(@, "Unsuccessful API call: ec2.security_group.authorize_ingress")
                            [] OTHER -> Append(@, "ClientError")]
                    /\ trace' = [trace EXCEPT ![p] = Append(@, "install")]
                    /\ pc' = [pc EXCEPT ![p] = StepAfter("install")]
    /\ UNCHANGED << config, runs, status_code, cidr_ranges,
                    r53_healthcheck_cidr_ranges, snap >>

\* main has returned, exited or raised: its locals are gone.  The process
\* may live on with its module-scope handle (a warm start next time) or end
\* (the next invocation imports the module again: main.py:22-23); after
\* exit() (main.py:48) it has ended.
Return(p) ==
    /\ pc[p] \in {"done", "aborted", "crashed"}
    /\ \E fresh \in BOOLEAN :
        /\ (pc[p] = "aborted") => fresh
        /\ meta_data' = [meta_data EXCEPT ![p] = IF fresh THEN << >> ELSE @]
    /\ pc' = [pc EXCEPT ![p] = "idle"]
    /\ status_code' = [status_code EXCEPT ![p] = 0]
    /\ cidr_ranges' = [cidr_ranges EXCEPT ![p] = << >>]
    /\ r53_healthcheck_cidr_ranges' = [r53_healthcheck_cidr_ranges EXCEPT ![p] = << >>]
    /\ calls' = [calls EXCEPT ![p] = << >>]
    /\ log' = [log EXCEPT ![p] = << >>]
    /\ trace' = [trace EXCEPT ![p] = << >>]
    /\ snap' = [snap EXCEPT ![p] = [start |-> {}, cleared |-> << >>]]
    /\ UNCHANGED << config, rules, runs, last_authorize >>

\* Invocations one after another, in either process.
Next ==
    \E p \in Procs :
        \/ Invoke(p)
        \/ Get(p)
        \/ Filter(p)
        \/ ClearCheck(p)
        \/ Revoke(p)
        \/ Authorize(p)
        \/ Return(p)

Spec == Init /\ [][Next]_vars

\* Two invocations, one per process, interleaved at their provider calls.
NextConcurrent ==
    \E p \in Procs :
        \/ InvokeConcurrently(p)
        \/ Get(p)
        \/ Filter(p)
        \/ ClearCheck(p)
        \/ Revoke(p)
        \/ Authorize(p)

SpecConcurrent == Init /\ [][NextConcurrent]_vars

\* ---------------------------------------------------------------- claims

CallsOf(p, op) == { i \in DOMAIN calls[p] : calls[p][i].op = op }
Intended(p) == Range(ip_permissions_list(r53_healthcheck_cidr_ranges[p]))
AllCallsSucceeded(p) == \A i \in DOMAIN calls[p] : calls[p][i].outcome = "200"

\* The matching records of a list, by position.
Matches(ranges, S, R) ==
    { i \in DOMAIN ranges : ranges[i].service = S /\ ranges[i].region = R }
\* The list is exactly the ip_prefix values of the matching records, in order.
IsSelection(out, ranges, S, R) ==
    /\ Len(out) = Cardinality(Matches(ranges, S, R))
    /\ \A i \in Matches(ranges, S, R) :
          out[Cardinality({ j \in Matches(ranges, S, R) : j <= i })] = ranges[i].ip_prefix
RemoveAt(s, i) == SubSeq(s, 1, i - 1) \o SubSeq(s, i + 1, Len(s))
InsertAt(s, i, x) == SubSeq(s, 1, i - 1) \o <<x>> \o SubSeq(s, i, Len(s))

C2_FetchFailureAbortsBeforeProvider ==
    \A p \in Procs :
        (status_code[p] # 0 /\ status_code[p] # 200) =>
            /\ pc[p] = "aborted"
            /\ calls[p] = << >>
            /\ trace[p] = << >>
            /\ rules = snap[p].start

\* C2 witness: a run that got status 500 over a non-empty rule set has aborted.
C2_Witness ==
    \E p \in Procs :
        /\ status_code[p] = 500
        /\ pc[p] = "aborted"
        /\ rules # {}

\* C10: the steps of a run return in the order get, filter, clear, install;
\* a run issues at most one revoke and at most one authorize call, the
\* authorize call only after the clear step returned, and no revoke call
\* after its authorize call.
C10_StepsInOrder ==
    \A p \in Procs :
        /\ \E n \in 0..4 : trace[p] = SubSeq(<<"get", "filter", "clear", "install">>, 1, n)
        /\ Cardinality(CallsOf(p, "revoke_ingress")) <= 1
        /\ Cardinality(CallsOf(p, "authorize_ingress")) <= 1
        /\ \A i \in CallsOf(p, "authorize_ingress") :
              /\ Len(trace[p]) >= 3 /\ trace[p][3] = "clear"
              /\ snap[p].cleared # << >>
              /\ \A j \in CallsOf(p, "revoke_ingress") : j < i
        /\ (pc[p] = "done") => trace[p] = <<"get", "filter", "clear", "install">>

\* C10 witness: a completed run that issued both calls.
C10_Witness ==
    \E p \in Procs :
        /\ pc[p] = "done"
        /\ Len(calls[p]) = 2
        /\ calls[p][1].op = "revoke_ingress"
        /\ calls[p][2].op = "authorize_ingress"

\* C8: for a filtered list of M CIDRs (M = 0 and repeated CIDRs included)
\* the install step issues exactly one authorize call with exactly M
\* entries, the i-th carrying the i-th CIDR, the configured FromPort, ToPort
\* and IpProtocol, and a description that contains the region string.
C8_OneAuthorizeCallWithMEntries ==
    \A p \in Procs :
        /\ ("install" \in Range(trace[p]) \/ (pc[p] = "crashed" /\ snap[p].cleared # << >>)) =>
              Cardinality(CallsOf(p, "authorize_ingress")) = 1
        /\ \A c \in CallsOf(p, "authorize_ingress") :
              LET perms == calls[p][c].IpPermissions
                  cidrs == r53_healthcheck_cidr_ranges[p]
              IN  /\ Len(perms) = Len(cidrs)
                  /\ \A i \in 1..Len(cidrs) :
                        /\ Len(perms[i].IpRanges) = 1
                        /\ perms[i].IpRanges[1].CidrIp = cidrs[i]
                        /\ perms[i].FromPort = FromPort
                        /\ perms[i].ToPort = ToPort
                        /\ perms[i].IpProtocol = IpProtocol
                        /\ \E k \in DOMAIN perms[i].IpRanges[1].Description :
                              perms[i].IpRanges[1].Description[k] = region

\* C8 witness: an install of a list with a repeated CIDR, with FromPort and
\* ToPort different, has issued its call.
C8_Witness ==
    \E p \in Procs :
        /\ pc[p] = "done"
        /\ FromPort # ToPort
        /\ Len(r53_healthcheck_cidr_ranges[p]) = 2
        /\ r53_healthcheck_cidr_ranges[p][1] = r53_healthcheck_cidr_ranges[p][2]
        /\ Cardinality(CallsOf(p, "authorize_ingress")) = 1

\* C5: when revoke_ingress returns a non-200 response the clear step prints
\* and returns: the run goes on to issue the authorize call with the full
\* filtered list and completes unless that call raises an uncaught error;
\* old and new rules can then coexist.
C5_RevokeNon200Continues ==
    \A p \in Procs :
        \A r \in CallsOf(p, "revoke_ingress") :
            calls[p][r].outcome = "non200" =>
                /\ pc[p] \in {"install", "done", "crashed"}
                /\ "clear" \in Range(trace[p])
                /\ "Unsuccessful API call: ec2.security_group.revoke_ingress" \in Range(log[p])
                /\ (pc[p] = "install") => rules = calls[p][r].before
                /\ (pc[p] # "install") =>
                      \E a \in CallsOf(p, "authorize_ingress") :
                          /\ a = r + 1
                          /\ calls[p][a].IpPermissions =
                                ip_permissions_list(r53_healthcheck_cidr_ranges[p])
                          /\ (calls[p][a].outcome # "OtherError") <=> (pc[p] = "done")

\* C5 witness: a completed run whose revoke returned non-200 and whose
\* authorize succeeded left the old rules beside the new ones.
C5_Witness ==
    \E p \in Procs :
        /\ pc[p] = "done"
        /\ Len(calls[p]) = 2
        /\ calls[p][1].outcome = "non200"
        /\ calls[p][2].outcome = "200"
        /\ Intended(p) # {}
        /\ snap[p].start \ Intended(p) # {}
        /\ rules = snap[p].start \cup Intended(p)

\* C6: when authorize_ingress raises ClientError or returns a non-200
\* response the install step prints and returns: the run completes and the
\* rule set is what the clear step left.
C6_AuthorizeFailureIsSwallowed ==
    \A p \in Procs :
        \A a \in CallsOf(p, "authorize_ingress") :
            calls[p][a].outcome \in {"ClientError", "non200"} =>
                /\ pc[p] = "done"
                /\ trace[p] = <<"get", "filter", "clear", "install">>
                /\ log[p] # << >>
                /\ snap[p].cleared = <<rules>>

\* C6 witness: a run cleared the rule set, its authorize call was rejected
\* with ClientError, and it completed with none of the intended rules.
C6_Witness ==
    \E p \in Procs :
        /\ pc[p] = "done"
        /\ Len(calls[p]) = 2
        /\ calls[p][1].outcome = "200"
        /\ calls[p][2].outcome = "ClientError"
        /\ Intended(p) # {}
        /\ rules = {}

\* C9: an exception raised by revoke_ingress (ClientError or any other) is
\* not caught: the run ends abnormally with no authorize call issued;
\* ClientError raised by authorize_ingress is caught and the run completes.
C9_RevokeExceptionPropagates ==
    \A p \in Procs :
        /\ \A r \in CallsOf(p, "revoke_ingress") :
              calls[p][r].outcome \in {"ClientError", "OtherError"} =>
                  /\ pc[p] = "crashed"
                  /\ CallsOf(p, "authorize_ingress") = {}
                  /\ "clear" \notin Range(trace[p])
                  /\ log[p] = << >>
        /\ \A a \in CallsOf(p, "authorize_ingress") :
              calls[p][a].outcome = "ClientError" => pc[p] = "done"

\* C9 witness: a run whose revoke call raised ClientError has crashed.
C9_Witness ==
    \E p \in Procs :
        /\ pc[p] = "crashed"
        /\ Len(calls[p]) = 1
        /\ calls[p][1].op = "revoke_ingress"
        /\ calls[p][1].outcome = "ClientError"

\* C1: after a run whose fetch returned 200 and whose provider calls all
\* succeeded, the rule set is exactly one rule per filtered CIDR with the
\* configured ports and protocol, whatever it held before the run.
C1_SuccessfulRunInstallsExactlyFiltered ==
    \A p \in Procs :
        (pc[p] = "done" /\ status_code[p] = 200 /\ AllCallsSucceeded(p)) =>
            rules = Intended(p)

\* C7: the clear step issues no revoke call when the rule set has no ingress
\* rules, and otherwise exactly one revoke call whose permission list is
\* the rules in the rule set at that time, in every run of a process.
C7_ClearRevokesCurrentRules ==
    \A p \in Procs :
        (snap[p].cleared # << >> \/ CallsOf(p, "revoke_ingress") # {}) =>
            IF snap[p].start = {}
            THEN CallsOf(p, "revoke_ingress") = {}
            ELSE /\ Cardinality(CallsOf(p, "revoke_ingress")) = 1
                 /\ \A r \in CallsOf(p, "revoke_ingress") :
                       /\ calls[p][r].before = snap[p].start
                       /\ calls[p][r].IpPermissions = calls[p][r].before

BothCompleted == \A p \in Procs : pc[p] = "done"
LastAuthorizeCall == calls[last_authorize][Len(calls[last_authorize])]

\* C3: two concurrent invocations whose calls all succeed leave, once both
\* have completed, exactly the rule list of the authorize call that landed
\* last.
C3_LastAuthorizeWins ==
    (BothCompleted /\ \A p \in Procs : AllCallsSucceeded(p)) =>
        rules = Intended(last_authorize)

\* C3 as amended: once both have completed and the authorize call that
\* landed last succeeded, the final rule set contains every rule of that
\* call's list; when all calls of the two (freshly started) invocations
\* succeeded it holds nothing but rules of the two lists, and is the last
\* list when the two lists are equal.
C3_LastAuthorizeIsContained ==
    BothCompleted =>
        /\ (LastAuthorizeCall.outcome = "200") => Intended(last_authorize) \subseteq rules
        /\ (\A p \in Procs : AllCallsSucceeded(p)) =>
              /\ rules \subseteq Intended(1) \cup Intended(2)
              /\ (Intended(1) = Intended(2)) => rules = Intended(last_authorize)

\* C3 witness: both invocations completed with every call succeeding, both
\* revoked, and the final rule set holds a rule the last authorize call did
\* not install.
C3_Witness ==
    /\ BothCompleted
    /\ \A p \in Procs : AllCallsSucceeded(p) /\ Len(calls[p]) = 2
    /\ rules \ Intended(last_authorize) # {}

====
